---- MODULE Spec2Model ----
(***************************************************************************)
(* Model of sleep_tracker.py: a Streamlit script over one SQLite table,    *)
(* sleep_logs(date TEXT PRIMARY KEY, sleep_hours, mood, tips_applied,      *)
(* sleep_score).  One browser session's script run is followed statement   *)
(* by statement; the other sessions that share sleep_data.db appear        *)
(* through the only thing they do to the shared file, a committed          *)
(* insert_or_replace_log.                                                  *)
(*                                                                         *)
(* Units.  Sleep hours are held in quarter hours (the form's step is 0.25) *)
(* and the score in quarter points, so every float the code produces from  *)
(* the modelled inputs is an exact integer here.  Means and the fitted     *)
(* prediction are exact rationals <<numerator, denominator>>.              *)
(* Sequences are 1-based: the code's index i is position i+1.              *)
(***************************************************************************)
EXTENDS Integers, Sequences, FiniteSets

\* call, ret, ncalls, written, repeat and overwritten record what has
\* happened (history variables); the rest is state of the store or the page.
VARIABLES
    table,        \* rows of sleep_logs, in rowid order
    call,         \* arguments of the most recent insert_or_replace_log call
    ret,          \* value that call returned
    ncalls,       \* number of insert_or_replace_log calls so far
    written,      \* per date text, the arguments of the latest call for it
    repeat,       \* the latest call had the arguments of the call before it
    pc,           \* position of the session's script run
    trig,         \* widget event that started the run
    form,         \* values of log_form in this run
    score,        \* score shown by st.success
    overwritten,  \* another session wrote form's date after this run's commit
    csv,          \* rows handed to the CSV download
    df,           \* snapshot read by the Trends & Insights block
    total,        \* "Total logged days" metric
    info,         \* "No data yet" shown
    window,       \* rolling window used
    roll,         \* result of rolling_stats
    pred,         \* result of predict_next_sleep
    predMsg,      \* message shown by the prediction block
    threshold,    \* threshold passed to detect_streak
    streak,       \* result of detect_streak
    variability,  \* result of compute_variability
    days,         \* days passed to generate_tips_from_df
    tips          \* result of generate_tips_from_df

vars == <<table, call, ret, ncalls, written, repeat, pc, trig, form, score, overwritten, csv,
          df, total, info, window, roll, pred, predMsg, threshold, streak,
          variability, days, tips>>

\* Python's None, and a value that is present
None == <<>>
Some(v) == <<v>>

(***************************************************************************)
(* Bounds and program constants                                            *)
(***************************************************************************)
Scale == 4            \* quarter hours per hour
FirstDay == 9         \* first day of the month that is logged
NumDates == 3         \* number of distinct calendar days
MaxWrites == 3        \* insert_or_replace_log calls in one behaviour
MaxWindow == 4        \* largest rolling window tried
MaxDays == 3          \* largest tips look-back tried on arbitrary frames
WindowMin == 3        \* slider minimum
TipsDays == 7         \* look-back the page passes to generate_tips_from_df
StreakHours == 7      \* streak threshold the page passes, in hours
ShortHours == 6       \* "Short Sleep" limit, in hours
EnoughHours == 7      \* "Sufficient" limit, in hours
HighVar == 3          \* variability limit, in hours
LowMood == 6          \* mood limit of the "Mood & Sleep" rule
MinFit == 3           \* records predict_next_sleep needs
RecentDays == 7       \* records of recent_avg in the prediction block

Dates == FirstDay..(FirstDay + NumDates - 1)
\* values entered in log_form: (sleep hours, mood, tips applied)
FormValues == {<<6 * Scale, 5, "">>, <<8 * Scale, 8, "nap">>}
FrameHours == {4 * Scale, 7 * Scale, 10 * Scale}
FrameMoods == {4, 7}

(***************************************************************************)
(* Dates as text                                                           *)
(***************************************************************************)
\* date.isoformat(): zero-padded digits (year and month are the same for
\* every modelled day, so the text is represented by its two day digits)
isoformat(d) == <<d \div 10, d % 10>>

\* pd.to_datetime(text).dt.date
to_date(t) == t[1] * 10 + t[2]

\* SQLite's comparison of two TEXT values (BINARY collation): the first
\* differing character decides, a proper prefix comes first
TextLess(a, b) ==
    \/ \E i \in 1..Len(a) :
           /\ i <= Len(b)
           /\ a[i] < b[i]
           /\ \A j \in 1..(i - 1) : a[j] = b[j]
    \/ /\ Len(a) < Len(b)
       /\ \A j \in 1..Len(a) : a[j] = b[j]

DateTexts == {isoformat(d) : d \in Dates}

(***************************************************************************)
(* Store                                                                   *)
(***************************************************************************)
\* slip: the mood weight 2 left out
ScoreMoodUnweighted(sleep_hours, mood) == sleep_hours * 10 + mood * Scale

\* float(sleep_hours) * 10.0 + int(mood) * 2.0, in quarter points; the values
\* of st.number_input are numbers, so the except branch is not taken
compute_sleep_score(sleep_hours, mood) == sleep_hours * 10 + (mood * Scale) * 2

Row(date_iso, sleep_hours, mood, tips_applied, sleep_score) ==
    [date |-> date_iso, sleep_hours |-> sleep_hours, mood |-> mood,
     tips_applied |-> tips_applied, sleep_score |-> sleep_score]

\* CREATE TABLE IF NOT EXISTS: the rows of an existing table are kept
init_db(t) == t

\* slip: a plain INSERT into a table without the key
InsertOnly(t, row) == Append(t, row)

\* slip: the key declared on (date, sleep_hours)
ReplaceOnDateAndHours(t, row) ==
    Append(SelectSeq(t, LAMBDA r : r.date # row.date
                                     \/ r.sleep_hours # row.sleep_hours), row)

\* slip: the table emptied before the insert
ReplaceAll(t, row) == <<row>>

\* INSERT OR REPLACE on the PRIMARY KEY date: the conflicting row is deleted,
\* the new row is added at the end
InsertOrReplace(t, row) ==
    Append(SelectSeq(t, LAMBDA r : r.date # row.date), row)

\* slip: the commit left out, the connection closed with the row unsaved
InsertWithoutCommit(t, date_iso, sleep_hours, mood, tips_applied) ==
    [table |-> t, ret |-> compute_sleep_score(sleep_hours, mood)]

insert_or_replace_log(t, date_iso, sleep_hours, mood, tips_applied) ==
    LET s == compute_sleep_score(sleep_hours, mood)
    IN [table |-> InsertOrReplace(t, Row(date_iso, sleep_hours, mood, tips_applied, s)),
        ret |-> s]

\* SELECT ... ORDER BY date
OrderByDate(t) ==
    LET rank(i) == Cardinality({j \in 1..Len(t) :
                       \/ TextLess(t[j].date, t[i].date)
                       \/ (t[j].date = t[i].date /\ j < i)}) + 1
    IN [k \in 1..Len(t) |-> t[CHOOSE i \in 1..Len(t) : rank(i) = k]]

fetch_all_logs_df(t) ==
    LET q == OrderByDate(t)
    IN [k \in 1..Len(q) |-> [q[k] EXCEPT !.date = to_date(q[k].date)]]

count_rows(t) == Len(t)

(***************************************************************************)
(* Analytics                                                               *)
(***************************************************************************)
Column(frame, name) == [k \in 1..Len(frame) |-> frame[k][name]]

SeqSum(x) ==
    LET acc[k \in 0..Len(x)] == IF k = 0 THEN 0 ELSE acc[k - 1] + x[k]
    IN acc[Len(x)]

SeqMax(x) == CHOOSE v \in {x[k] : k \in 1..Len(x)} : \A k \in 1..Len(x) : x[k] <= v

SeqMin(x) == CHOOSE v \in {x[k] : k \in 1..Len(x)} : \A k \in 1..Len(x) : v <= x[k]

\* Series.mean(): the exact quotient sum / count
Mean(x) == <<SeqSum(x), Len(x)>>

\* comparison of a quotient with a whole number of hours (or mood points)
RatLess(q, n) == q[1] < n * q[2]

\* slip: head(n) in place of tail(n)
head(frame, n) ==
    IF n >= Len(frame) THEN frame ELSE SubSeq(frame, 1, n)

\* DataFrame.tail(n) for n >= 0
tail(frame, n) ==
    IF n >= Len(frame) THEN frame
    ELSE SubSeq(frame, Len(frame) - n + 1, Len(frame))

\* slip: the window one record short
RollingMeanShort(x, w) ==
    LET sum[k \in 0..Len(x)] ==
            IF k = 0 THEN 0
            ELSE sum[k - 1] + x[k] - (IF k >= w THEN x[k - w + 1] ELSE 0)
        nobs[k \in 0..Len(x)] ==
            IF k = 0 THEN 0
            ELSE nobs[k - 1] + 1 - (IF k >= w THEN 1 ELSE 0)
    IN [k \in 1..Len(x) |-> <<sum[k], nobs[k]>>]

\* Series.rolling(window, min_periods=1).mean(): a sliding sum that adds the
\* entering value and removes the one that leaves the window
RollingMean(x, w) ==
    LET sum[k \in 0..Len(x)] ==
            IF k = 0 THEN 0
            ELSE sum[k - 1] + x[k] - (IF k > w THEN x[k - w] ELSE 0)
        nobs[k \in 0..Len(x)] ==
            IF k = 0 THEN 0
            ELSE nobs[k - 1] + 1 - (IF k > w THEN 1 ELSE 0)
    IN [k \in 1..Len(x) |-> <<sum[k], nobs[k]>>]

rolling_stats(frame, w) ==
    IF frame = <<>> THEN None
    ELSE Some([rolling_sleep_avg |-> RollingMean(Column(frame, "sleep_hours"), w),
               rolling_mood_avg |-> RollingMean(Column(frame, "mood"), w)])

compute_variability(frame) ==
    IF frame = <<>> THEN None
    ELSE Some(SeqMax(Column(frame, "sleep_hours"))
                - SeqMin(Column(frame, "sleep_hours")))

\* slip: the sort left out
Unsorted(frame) == frame

\* DataFrame.sort_values('date')
SortValues(frame) ==
    LET rank(i) == Cardinality({j \in 1..Len(frame) :
                       \/ frame[j].date < frame[i].date
                       \/ (frame[j].date = frame[i].date /\ j < i)}) + 1
    IN [k \in 1..Len(frame) |-> frame[CHOOSE i \in 1..Len(frame) : rank(i) = k]]

\* the loop over arr[::-1]: count until the first False
RECURSIVE CountFromEnd(_, _)
CountFromEnd(arr, k) ==
    IF k = 0 THEN 0
    ELSE IF arr[k] THEN 1 + CountFromEnd(arr, k - 1)
    ELSE 0

detect_streak(frame, th) ==
    IF frame = <<>> THEN 0
    ELSE LET df_sorted == SortValues(frame)
             arr == [k \in 1..Len(df_sorted) |-> df_sorted[k].sleep_hours >= th]
         IN CountFromEnd(arr, Len(arr))

\* np.polyfit(x, y, 1) on x = 0..n-1, evaluated at x = n: the least-squares
\* line, as the exact quotient (the float result is this value up to rounding)
LinearFit(y) ==
    LET n == Len(y)
        Sx == SeqSum([k \in 1..n |-> k - 1])
        Sxx == SeqSum([k \in 1..n |-> (k - 1) * (k - 1)])
        Sy == SeqSum(y)
        Sxy == SeqSum([k \in 1..n |-> (k - 1) * y[k]])
        den == n * Sxx - Sx * Sx
        slopeNum == n * Sxy - Sx * Sy
        \* slope = slopeNum / den, intercept = (Sy - slope * Sx) / n
    IN <<slopeNum * n * n + Sy * den - slopeNum * Sx, n * den>>

\* slip: two records accepted
PredictFromTwo(frame) ==
    IF frame = <<>> \/ Len(frame) < MinFit - 1 THEN None
    ELSE Some(LinearFit(Column(frame, "sleep_hours")))

predict_next_sleep(frame) ==
    IF frame = <<>> \/ Len(frame) < MinFit THEN None
    ELSE Some(LinearFit(Column(frame, "sleep_hours")))

generate_tips_from_df(frame, d) ==
    LET recent == tail(frame, d)
    IN IF recent = <<>> THEN <<"No data">>
       ELSE LET avg == Mean(Column(recent, "sleep_hours"))
                var == SeqMax(Column(recent, "sleep_hours"))
                         - SeqMin(Column(recent, "sleep_hours"))
                mood_avg == Mean(Column(recent, "mood"))
                core == IF RatLess(avg, ShortHours * Scale)
                            THEN <<"Short Sleep (<6h)">>
                        ELSE IF RatLess(avg, EnoughHours * Scale)
                            THEN <<"Suboptimal Sleep (6-7h)">>
                        ELSE <<"Sufficient Average Sleep">>
                varTip == IF var >= HighVar * Scale
                              THEN <<"High Night-to-Night Variability">>
                          ELSE <<>>
                moodTip == IF RatLess(mood_avg, LowMood)
                                /\ RatLess(avg, EnoughHours * Scale)
                               THEN <<"Mood & Sleep">>
                           ELSE <<>>
            IN core \o varTip \o moodTip

\* messages the prediction block can show for a snapshot; where the exact
\* prediction equals the 7-hour limit the float result may fall on either side
PredictionMessages(frame) ==
    LET r == predict_next_sleep(frame)
        p == r[1]
    IN IF r = None THEN {"Not enough data"}
       ELSE LET recent_avg == Mean(Column(tail(frame, RecentDays), "sleep_hours"))
                limit == EnoughHours * Scale
            IN IF ~RatLess(recent_avg, limit) THEN {"stable"}
               ELSE IF RatLess(p, limit) THEN {"short sleep"}
               ELSE IF p[1] = limit * p[2] THEN {"short sleep", "stable"}
               ELSE {"stable"}

(***************************************************************************)
(* CSV export                                                              *)
(***************************************************************************)
CsvHeader == <<"date", "sleep_hours", "mood", "tips_applied", "sleep_score">>

\* DataFrame.to_csv(index=False): the header line, then one line per row
to_csv(frame) ==
    <<CsvHeader>> \o
    [k \in 1..Len(frame) |->
        <<isoformat(frame[k].date), frame[k].sleep_hours, frame[k].mood,
          frame[k].tips_applied, frame[k].sleep_score>>]

(***************************************************************************)
(* One script run                                                          *)
(***************************************************************************)
Triggers == {"none", "save", "export", "compare"}

Forms ==
    {[date |-> d, sleep_hours |-> v[1], mood |-> v[2], tips_applied |-> v[3]] :
        d \in Dates, v \in FormValues}

results == <<total, info, window, roll, pred, predMsg, threshold, streak,
             variability, tips>>

\* nothing of the Trends & Insights block is on the page yet
NothingShown ==
    /\ total = None
    /\ info = FALSE
    /\ window = None
    /\ roll = None
    /\ pred = None
    /\ predMsg = ""
    /\ threshold = None
    /\ streak = None
    /\ variability = None
    /\ tips = None

Init ==
    /\ table = <<>>
    /\ call = None
    /\ ret = None
    /\ ncalls = 0
    /\ written = [t \in DateTexts |-> None]
    /\ repeat = FALSE
    /\ pc = "idle"
    /\ trig = "none"
    /\ form = None
    /\ score = None
    /\ overwritten = FALSE
    /\ csv = None
    /\ df = <<>>
    /\ days = None
    /\ NothingShown

\* one call of insert_or_replace_log, by any session, with its bookkeeping
Commit(f) ==
    LET date_iso == isoformat(f.date)
        args == [date |-> date_iso, sleep_hours |-> f.sleep_hours,
                 mood |-> f.mood, tips_applied |-> f.tips_applied]
        r == insert_or_replace_log(table, date_iso, f.sleep_hours, f.mood,
                                   f.tips_applied)
    IN /\ table' = r.table
       /\ ret' = r.ret
       /\ call' = Some(args)
       /\ ncalls' = ncalls + 1
       /\ written' = [written EXCEPT ![date_iso] = Some(args)]
       /\ repeat' = (call = Some(args))

\* a page load or a widget event runs the script from the top: lines 231-247.
\* The first run is the page load; the Compute Before/After button is on the
\* page only when the previous run found data
StartRun(t, f) ==
    /\ pc \in {"idle", "done", "error"}
    /\ pc = "idle" => t = "none"
    /\ t = "compare" => ~info
    /\ t = "save" => ncalls < MaxWrites
    /\ table' = init_db(table)
    /\ trig' = t
    /\ form' = IF t = "save" THEN f ELSE None
    /\ score' = None
    /\ overwritten' = FALSE
    /\ csv' = None
    /\ df' = <<>>
    /\ days' = None
    /\ total' = None
    /\ info' = FALSE
    /\ window' = None
    /\ roll' = None
    /\ pred' = None
    /\ predMsg' = ""
    /\ threshold' = None
    /\ streak' = None
    /\ variability' = None
    /\ tips' = None
    /\ pc' = CASE t = "save" -> "save"
               [] t = "export" -> "export"
               [] OTHER -> "fetch"
    /\ UNCHANGED <<call, ret, ncalls, written, repeat>>

\* lines 248-251; mood is an integer already, int(mood) leaves it
Save ==
    /\ pc = "save"
    /\ Commit(form)
    /\ score' = ret'
    /\ overwritten' = FALSE
    /\ pc' = "fetch"
    /\ UNCHANGED <<trig, form, csv, df, days, results>>

\* lines 255-261; with no logs a warning is shown and nothing is offered
Export ==
    /\ pc = "export"
    /\ LET df_all == fetch_all_logs_df(table)
       IN csv' = IF df_all = <<>> THEN None ELSE to_csv(df_all)
    /\ pc' = "fetch"
    /\ UNCHANGED <<table, call, ret, ncalls, written, repeat, trig, form, score, overwritten, df,
                   days, results>>

\* line 266
Fetch ==
    /\ pc = "fetch"
    /\ df' = fetch_all_logs_df(table)
    /\ pc' = "count"
    /\ UNCHANGED <<table, call, ret, ncalls, written, repeat, trig, form, score, overwritten, csv,
                   days, results>>

\* lines 267-270
Count ==
    /\ pc = "count"
    /\ total' = count_rows(table)
    /\ info' = (df = <<>>)
    /\ pc' = IF df = <<>> THEN "done" ELSE "rolling"
    /\ UNCHANGED <<table, call, ret, ncalls, written, repeat, trig, form, score, overwritten, csv,
                   df, days, window, roll, pred, predMsg, threshold, streak,
                   variability, tips>>

\* lines 276-282
Rolling(w) ==
    /\ pc = "rolling"
    /\ window' = w
    /\ roll' = rolling_stats(df, w)
    /\ pc' = "predict"
    /\ UNCHANGED <<table, call, ret, ncalls, written, repeat, trig, form, score, overwritten, csv,
                   df, days, total, info, pred, predMsg, threshold, streak,
                   variability, tips>>

\* lines 289-301
Predict ==
    /\ pc = "predict"
    /\ pred' = predict_next_sleep(df)
    /\ predMsg' \in PredictionMessages(df)
    /\ pc' = "streak"
    /\ UNCHANGED <<table, call, ret, ncalls, written, repeat, trig, form, score, overwritten, csv,
                   df, days, total, info, window, roll, threshold, streak,
                   variability, tips>>

\* lines 304-305
Streak(th) ==
    /\ pc = "streak"
    /\ threshold' = th
    /\ streak' = detect_streak(df, th)
    /\ pc' = "variability"
    /\ UNCHANGED <<table, call, ret, ncalls, written, repeat, trig, form, score, overwritten, csv,
                   df, days, total, info, window, roll, pred, predMsg,
                   variability, tips>>

\* lines 308-309
Variability ==
    /\ pc = "variability"
    /\ variability' = compute_variability(df)
    /\ pc' = "tips"
    /\ UNCHANGED <<table, call, ret, ncalls, written, repeat, trig, form, score, overwritten, csv,
                   df, days, total, info, window, roll, pred, predMsg, threshold,
                   streak, tips>>

\* lines 311-314
Tips(d) ==
    /\ pc = "tips"
    /\ days' = d
    /\ tips' = generate_tips_from_df(df, d)
    /\ pc' = "buttons"
    /\ UNCHANGED <<table, call, ret, ncalls, written, repeat, trig, form, score, overwritten, csv,
                   df, total, info, window, roll, pred, predMsg, threshold,
                   streak, variability>>

\* lines 317-334: with the button pressed, df['date'] < date_iso compares
\* datetime.date objects with a str and raises TypeError; the run ends there
BeforeAfter ==
    /\ pc = "buttons"
    /\ pc' = IF trig = "compare" THEN "error" ELSE "done"
    /\ UNCHANGED <<table, call, ret, ncalls, written, repeat, trig, form, score, overwritten, csv,
                   df, days, results>>

\* another session's run reaches line 250 and commits
OtherSessionSave(f) ==
    /\ ncalls + (IF pc = "save" THEN 1 ELSE 0) < MaxWrites
    /\ Commit(f)
    /\ overwritten' = (overwritten
                          \/ (trig = "save" /\ pc = "fetch" /\ form.date = f.date))
    /\ UNCHANGED <<pc, trig, form, score, csv, df, days, results>>

Next ==
    \/ \E t \in Triggers, f \in Forms : StartRun(t, f)
    \/ Save
    \/ Export
    \/ Fetch
    \/ Count
    \/ \E w \in WindowMin..MaxWindow : Rolling(w)
    \/ Predict
    \/ Streak(StreakHours * Scale)
    \/ Variability
    \/ Tips(TipsDays)
    \/ BeforeAfter
    \/ \E f \in Forms : OtherSessionSave(f)

Spec == Init /\ [][Next]_vars

(***************************************************************************)
(* The analytics functions on arbitrary frames                             *)
(***************************************************************************)
FrameRows ==
    {Row(d, h, m, "", compute_sleep_score(h, m)) :
        d \in Dates, h \in FrameHours, m \in FrameMoods}

\* frames of at most NumDates rows, one row per date, in any row order
Frames ==
    UNION {{f \in [1..n -> FrameRows] :
               \A i, j \in 1..n : i # j => f[i].date # f[j].date} :
           n \in 0..NumDates}

InitFn ==
    /\ table = <<>>
    /\ call = None
    /\ ret = None
    /\ ncalls = 0
    /\ written = [t \in DateTexts |-> None]
    /\ repeat = FALSE
    /\ pc = "rolling"
    /\ trig = "none"
    /\ form = None
    /\ score = None
    /\ overwritten = FALSE
    /\ csv = None
    /\ df \in Frames
    /\ days = None
    /\ NothingShown

NextFn ==
    \/ \E w \in 1..MaxWindow : Rolling(w)
    \/ Predict
    \/ Streak(StreakHours * Scale)
    \/ Variability
    \/ \E d \in 0..MaxDays : Tips(d)

SpecFn == InitFn /\ [][NextFn]_vars

(***************************************************************************)
(* Positions of a run                                                      *)
(***************************************************************************)
RunEnded == pc \in {"done", "error"}

PostFetch ==
    pc \in {"count", "rolling", "predict", "streak", "variability", "tips",
            "buttons", "done", "error"}

PostCount == PostFetch /\ pc # "count"

RollingDone == pc \in {"predict", "streak", "variability", "tips", "buttons"}

StreakDone == pc \in {"variability", "tips", "buttons"}

TipsDone == pc = "buttons"

Min(a, b) == IF a <= b THEN a ELSE b

(***************************************************************************)
(* C1: the store holds at most one record per date, and the record of a    *)
(* date carries the sleep hours, mood and tips of the most recent          *)
(* insert_or_replace_log call for that date; a date never written has no   *)
(* record.                                                                 *)
(***************************************************************************)
C1_OneRecordPerDate ==
    /\ \A i, j \in 1..Len(table) : table[i].date = table[j].date => i = j
    /\ \A t \in DateTexts :
          IF written[t] = None
          THEN \A i \in 1..Len(table) : table[i].date # t
          ELSE \E i \in 1..Len(table) :
                  /\ table[i].date = t
                  /\ table[i].sleep_hours = written[t][1].sleep_hours
                  /\ table[i].mood = written[t][1].mood
                  /\ table[i].tips_applied = written[t][1].tips_applied

\* a date written twice with different values, leaving one record
C1_Witness == ncalls = 2 /\ ~repeat /\ Len(table) = 1

(***************************************************************************)
(* C2: a call of insert_or_replace_log whose arguments are those of the    *)
(* call just before it leaves the table as it was and returns the same     *)
(* score.                                                                  *)
(***************************************************************************)
C2_Idempotent ==
    [][(ncalls' = ncalls + 1 /\ call' = call) => (table' = table /\ ret' = ret)]_vars

\* the same arguments were written twice in a row, next to another record
C2_Witness == repeat /\ Len(table) >= 2

(***************************************************************************)
(* C3: every stored record, and every record of a fetched snapshot, has    *)
(* sleep_score = sleep_hours * 10 + mood * 2 of its own fields.            *)
(***************************************************************************)
C3_ScoreDerived ==
    /\ \A i \in 1..Len(table) :
          table[i].sleep_score = table[i].sleep_hours * 10 + table[i].mood * 2 * Scale
    /\ \A k \in 1..Len(df) :
          df[k].sleep_score = df[k].sleep_hours * 10 + df[k].mood * 2 * Scale

\* a record was overwritten and two records with different scores are stored
C3_Witness ==
    /\ ncalls = 3
    /\ Len(table) = 2
    /\ table[1].sleep_score # table[2].sleep_score

(***************************************************************************)
(* C4: no step removes a date from the store; the table changes only in a  *)
(* step that is an insert_or_replace_log call, and then only the record of *)
(* the call's date changes.                                                *)
(***************************************************************************)
C4_Frame ==
    [][/\ \A i \in 1..Len(table) :
              \E j \in 1..Len(table') :
                  /\ table'[j].date = table[i].date
                  /\ table'[j] # table[i] =>
                        (ncalls' = ncalls + 1 /\ call'[1].date = table[i].date)
       /\ table' # table => ncalls' = ncalls + 1]_vars

\* a record was overwritten while another record was stored, and a run that
\* exported and read the store has ended
C4_Witness == ncalls = 3 /\ Len(table) = 2 /\ trig = "export" /\ RunEnded

(***************************************************************************)
(* C5: detect_streak returns the largest n such that the n records with    *)
(* the latest dates all have sleep_hours >= threshold: all records on an   *)
(* all-qualifying frame, 0 on an empty or all-failing frame, 0 when the    *)
(* record with the latest date fails; the row order plays no part.         *)
(***************************************************************************)
Newer(frame, r) == Cardinality({k \in 1..Len(frame) : frame[k].date > r.date})

LatestQualify(frame, th, n) ==
    \A k \in 1..Len(frame) :
        Newer(frame, frame[k]) < n => frame[k].sleep_hours >= th

C5_Streak ==
    StreakDone =>
        /\ streak \in 0..Len(df)
        /\ LatestQualify(df, threshold, streak)
        /\ streak < Len(df) => ~LatestQualify(df, threshold, streak + 1)
        /\ (\A k \in 1..Len(df) : df[k].sleep_hours >= threshold) => streak = Len(df)
        /\ (\A k \in 1..Len(df) : df[k].sleep_hours < threshold) => streak = 0
        /\ (\E k \in 1..Len(df) :
               Newer(df, df[k]) = 0 /\ df[k].sleep_hours < threshold) => streak = 0

\* the last row of the frame fails, yet the two latest dates qualify
C5_Witness ==
    /\ StreakDone
    /\ Len(df) = 3
    /\ df[3].sleep_hours < threshold
    /\ streak = 2

(***************************************************************************)
(* C6: generate_tips_from_df(df, days) reads the last min(days, len(df))   *)
(* rows only: none gives <<"No data">>; otherwise one of the three sleep   *)
(* tips by the mean (< 6, < 7, else), then the variability tip iff         *)
(* max - min >= 3, then the mood tip iff mean mood < 6 and mean sleep < 7. *)
(***************************************************************************)
C6_Tips ==
    TipsDone =>
        LET n == Min(days, Len(df))
            rec == [k \in 1..n |-> df[Len(df) - n + k]]
            S == SeqSum([k \in 1..n |-> rec[k].sleep_hours])
            M == SeqSum([k \in 1..n |-> rec[k].mood])
            spread == \E i, j \in 1..n :
                          rec[i].sleep_hours - rec[j].sleep_hours >= 3 * Scale
        IN IF n = 0 THEN tips = <<"No data">>
           ELSE tips =
                  <<IF S < 6 * Scale * n THEN "Short Sleep (<6h)"
                    ELSE IF S < 7 * Scale * n THEN "Suboptimal Sleep (6-7h)"
                    ELSE "Sufficient Average Sleep">>
                  \o (IF spread THEN <<"High Night-to-Night Variability">> ELSE <<>>)
                  \o (IF M < 6 * n /\ S < 7 * Scale * n THEN <<"Mood & Sleep">>
                      ELSE <<>>)

\* all three tips from a window shorter than the frame, whose other rows
\* would change the outcome
C6_Witness ==
    /\ TipsDone
    /\ days < Len(df)
    /\ tips = <<"Short Sleep (<6h)", "High Night-to-Night Variability", "Mood & Sleep">>
    /\ generate_tips_from_df(df, Len(df)) # tips

(***************************************************************************)
(* C7, as stated: predict_next_sleep is None exactly on fewer than 3       *)
(* records, and a finished run shows "Not enough data" exactly when        *)
(* predict_next_sleep of its snapshot is None.                             *)
(***************************************************************************)
C7_NoticeIffNull ==
    /\ PostFetch => (predict_next_sleep(df) = None <=> Len(df) < 3)
    /\ RunEnded =>
          (predMsg = "Not enough data" <=> predict_next_sleep(df) = None)

(***************************************************************************)
(* C7, amended: predict_next_sleep is None exactly on fewer than 3         *)
(* records; the run calls it only on a non-empty snapshot, and shows "Not  *)
(* enough data" exactly when the call returned None, that is on a snapshot *)
(* of 1 or 2 records; on an empty snapshot it shows "No data yet" and no   *)
(* notice.                                                                 *)
(***************************************************************************)
C7_NoticeIffCalledAndNull ==
    /\ PostFetch => (predict_next_sleep(df) = None <=> Len(df) < 3)
    /\ pc \in {"streak", "variability", "tips", "buttons"} =>
          /\ pred = None <=> Len(df) < 3
          /\ predMsg = "Not enough data" <=> pred = None
    /\ RunEnded =>
          /\ predMsg = "Not enough data" <=> Len(df) \in {1, 2}
          /\ info <=> Len(df) = 0
          /\ info => predMsg = ""

\* a run on a snapshot of two records has ended with the notice shown
C7_Witness == RunEnded /\ Len(df) = 2 /\ predMsg = "Not enough data"

(***************************************************************************)
(* C8: rolling_stats(df, window) gives at each index the mean of           *)
(* sleep_hours (of mood) over the min(window, index) rows ending there     *)
(* (1-based index); so the first value is the first row's own, window 1    *)
(* gives the series itself, and with window >= len(df) the last value is   *)
(* the mean of the whole series.                                           *)
(***************************************************************************)
IsMeanOf(q, x, from, to) ==
    /\ q[2] > 0
    /\ q[1] * (to - from + 1) = SeqSum(SubSeq(x, from, to)) * q[2]

TrailingMeans(r, x, w) ==
    /\ Len(r) = Len(x)
    /\ \A i \in 1..Len(x) : IsMeanOf(r[i], x, i - Min(w, i) + 1, i)
    /\ r[1][1] = x[1] * r[1][2]
    /\ w = 1 => \A i \in 1..Len(x) : r[i][1] = x[i] * r[i][2]
    /\ w >= Len(x) => IsMeanOf(r[Len(x)], x, 1, Len(x))

C8_Rolling ==
    (RollingDone /\ df # <<>>) =>
        /\ roll # None
        /\ TrailingMeans(roll[1].rolling_sleep_avg, Column(df, "sleep_hours"), window)
        /\ TrailingMeans(roll[1].rolling_mood_avg, Column(df, "mood"), window)

\* a window of 2 over three rows of different sleep hours
C8_Witness ==
    /\ RollingDone
    /\ window = 2
    /\ Len(df) = 3
    /\ df[1].sleep_hours # df[2].sleep_hours
    /\ df[2].sleep_hours # df[3].sleep_hours
    /\ df[1].sleep_hours # df[3].sleep_hours

(***************************************************************************)
(* C9, as stated: the "Total logged days" metric of a run equals the       *)
(* number of records of the snapshot the run computes everything else      *)
(* from.                                                                   *)
(***************************************************************************)
C9_CountIsSnapshot == PostCount => total = Len(df)

(***************************************************************************)
(* C10, as stated: in a run that saved a log, the fetched snapshot holds   *)
(* the record of the submitted date with the submitted sleep hours, mood,  *)
(* tips and the score that was shown.                                      *)
(***************************************************************************)
SubmittedRow == Row(form.date, form.sleep_hours, form.mood, form.tips_applied, score)

C10_SnapshotHasSubmitted ==
    (trig = "save" /\ PostFetch) =>
        \E k \in 1..Len(df) : df[k] = SubmittedRow

(***************************************************************************)
(* C10, amended: in a run that saved a log, the fetched snapshot holds a   *)
(* record of the submitted date; it is the submitted record unless another *)
(* session committed a log for that date between this run's commit and its *)
(* fetch.                                                                  *)
(***************************************************************************)
C10_SnapshotHasDate ==
    (trig = "save" /\ PostFetch) =>
        \E k \in 1..Len(df) :
            /\ df[k].date = form.date
            /\ ~overwritten => df[k] = SubmittedRow

\* a saving run has ended, undisturbed, over a store that held another record
C10_Witness ==
    /\ trig = "save"
    /\ RunEnded
    /\ ~overwritten
    /\ Len(df) >= 2

====
